---- MODULE Spec2Model ----
(***************************************************************************)
(* One render pass of the monthly sales dashboard, for both scripts of     *)
(* the repository (0003.py and kurly_dash_2.py): load the table, enrich    *)
(* it (enrich_df), then emit the summary metrics, the four charts and the  *)
(* preview.                                                                *)
(*                                                                         *)
(* Column names are written in ASCII:                                      *)
(*   "month" = 월, "sales" = 매출액, "prev" = 전년동월, "yoy" = 증감률,    *)
(*   "quarter" = 분기, "_date" = _date.                                    *)
(*                                                                         *)
(* CSV text is a sequence of one-character strings.  Numbers are exact     *)
(* rationals n/d in lowest terms with d > 0 (the float64 values the        *)
(* inputs used here produce, without rounding).                            *)
(***************************************************************************)
EXTENDS Integers, Sequences, FiniteSets

VARIABLES script, uploaded, use_sample, heap, df_raw, df, order, pc,
          rendered, total_sales, avg_yoy, max_idx, min_idx

vars == <<script, uploaded, use_sample, heap, df_raw, df, order, pc,
          rendered, total_sales, avg_yoy, max_idx, min_idx>>

(* Largest number of data rows in an uploaded file. *)
MaxRows == 2

(***************************************************************************)
(* Values held in a table cell.                                            *)
(***************************************************************************)
None == [k |-> "none"]
NaN == [k |-> "nan"]
NaT == [k |-> "nat"]
Str(s) == [k |-> "str", s |-> s]
Date(y, m) == [k |-> "date", y |-> y, m |-> m]
Inf(sign) == [k |-> "inf", sign |-> sign]

Abs(x) == IF x < 0 THEN -x ELSE x

RECURSIVE Gcd(_, _)
Gcd(a, b) == IF b = 0 THEN a ELSE Gcd(b, a % b)

(* The number n/d, d # 0, in lowest terms. *)
Num(n, d) ==
    LET g == Gcd(Abs(n), Abs(d))
        s == IF d < 0 THEN -1 ELSE 1
    IN  [k |-> "num", n |-> s * (n \div g), d |-> s * (d \div g)]

isna(v) == v.k \in {"nan", "nat"}

(***************************************************************************)
(* float64 arithmetic of numpy on one pair of values: NaN propagates, and  *)
(* a division by zero gives an infinity or NaN without raising.            *)
(***************************************************************************)
Sub(a, b) ==
    IF a.k = "num" /\ b.k = "num"
    THEN Num(a.n * b.d - b.n * a.d, a.d * b.d)
    ELSE NaN

Div(a, b) ==
    IF a.k = "num" /\ b.k = "num"
    THEN IF b.n # 0 THEN Num(a.n * b.d, a.d * b.n)
         ELSE IF a.n > 0 THEN Inf(1)
         ELSE IF a.n < 0 THEN Inf(-1)
         ELSE NaN
    ELSE NaN

Mul(a, c) ==
    IF a.k = "num" THEN Num(a.n * c, a.d)
    ELSE IF a.k = "inf" THEN Inf(IF c < 0 THEN -a.sign ELSE a.sign)
    ELSE NaN

Add(a, b) ==
    IF a.k = "num" /\ b.k = "num"
    THEN Num(a.n * b.d + b.n * a.d, a.d * b.d)
    ELSE NaN

Less(a, b) == a.n * b.d < b.n * a.d

(* Series.ne(0): NaN != 0 is True. *)
ne0(v) == ~(v.k = "num" /\ v.n = 0)

(* Rounding to the nearest whole number instead of truncating. *)
int_round(v) == (2 * v.n + v.d) \div (2 * v.d)

(* Python int() of a float: truncation toward zero. *)
int(v) == IF v.n < 0 THEN -((-v.n) \div v.d) ELSE v.n \div v.d

(***************************************************************************)
(* Text conversions.                                                       *)
(***************************************************************************)
DigitChars == {"0", "1", "2", "3", "4", "5", "6", "7", "8", "9"}

DigitVal(c) ==
    CASE c = "0" -> 0 [] c = "1" -> 1 [] c = "2" -> 2 [] c = "3" -> 3
      [] c = "4" -> 4 [] c = "5" -> 5 [] c = "6" -> 6 [] c = "7" -> 7
      [] c = "8" -> 8 [] c = "9" -> 9

IsDigits(s) == Len(s) > 0 /\ \A i \in 1..Len(s) : s[i] \in DigitChars

RECURSIVE DigitsVal(_)
DigitsVal(s) ==
    IF s = <<>> THEN 0
    ELSE 10 * DigitsVal(SubSeq(s, 1, Len(s) - 1)) + DigitVal(s[Len(s)])

RECURSIVE Pow10(_)
Pow10(n) == IF n = 0 THEN 1 ELSE 10 * Pow10(n - 1)

RECURSIVE lstrip(_)
lstrip(s) == IF s # <<>> /\ s[1] = " " THEN lstrip(Tail(s)) ELSE s

RECURSIVE rstrip(_)
rstrip(s) ==
    IF s # <<>> /\ s[Len(s)] = " " THEN rstrip(SubSeq(s, 1, Len(s) - 1)) ELSE s

(* str.strip() on one label. *)
strip(v) == Str(lstrip(rstrip(v.s)))

(* astype(str) on one cell: a missing cell becomes the text "nan". *)
astype_str(v) == IF isna(v) THEN Str(<<"n", "a", "n">>) ELSE v

(* pd.to_datetime(format="%Y-%m", errors="coerce") on one label: four     *)
(* digits, "-", a two-digit month 01..12; anything else is NaT.            *)
to_datetime(v) ==
    LET s == v.s
    IN  IF /\ Len(s) = 7
           /\ IsDigits(SubSeq(s, 1, 4))
           /\ s[5] = "-"
           /\ IsDigits(SubSeq(s, 6, 7))
           /\ DigitsVal(SubSeq(s, 6, 7)) \in 1..12
        THEN Date(DigitsVal(SubSeq(s, 1, 4)), DigitsVal(SubSeq(s, 6, 7)))
        ELSE NaT

(* Position of the first "." of s, or 0. *)
DotPos(s) ==
    IF \E i \in 1..Len(s) : s[i] = "."
    THEN CHOOSE i \in 1..Len(s) : s[i] = "." /\ \A j \in 1..(i - 1) : s[j] # "."
    ELSE 0

(* The unsigned decimal numeral s: digits, or digits "." digits. *)
UnsignedVal(s) ==
    LET p == DotPos(s)
        ip == IF p = 0 THEN s ELSE SubSeq(s, 1, p - 1)
        fp == IF p = 0 THEN <<>> ELSE SubSeq(s, p + 1, Len(s))
    IN  IF p = 0
        THEN IF IsDigits(ip) THEN Num(DigitsVal(ip), 1) ELSE NaN
        ELSE IF IsDigits(ip) /\ IsDigits(fp)
             THEN Num(DigitsVal(ip) * Pow10(Len(fp)) + DigitsVal(fp), Pow10(Len(fp)))
             ELSE NaN

(* pd.to_numeric(errors="coerce") on one cell. *)
to_numeric(v) ==
    IF v.k # "str" THEN v
    ELSE IF v.s # <<>> /\ v.s[1] = "-"
         THEN Mul(UnsignedVal(Tail(v.s)), -1)
         ELSE UnsignedVal(v.s)

(***************************************************************************)
(* Data frames: a set of column names, the index labels, and the rows      *)
(* (each a function from the column names to values).                      *)
(***************************************************************************)
NRows(f) == Len(f.rows)

Col(f, c) == [i \in 1..NRows(f) |-> f.rows[i][c]]

(* df[c] = vals, on the frame itself. *)
SetCol(f, c, vals) ==
    [cols |-> f.cols \cup {c},
     index |-> f.index,
     rows |-> [i \in 1..NRows(f) |->
                 [x \in f.cols \cup {c} |-> IF x = c THEN vals[i] ELSE f.rows[i][x]]]]

Positions(mask) == SelectSeq([i \in 1..Len(mask) |-> i], LAMBDA i : mask[i])

(* df.loc[mask, c]: the selected values with their index labels. *)
loc(f, mask, c) ==
    LET ps == Positions(mask)
    IN  [index |-> [j \in 1..Len(ps) |-> f.index[ps[j]]],
         vals |-> [j \in 1..Len(ps) |-> f.rows[ps[j]][c]]]

(* The value a series holds for an index label, NaN when it has none. *)
AtLabel(ser, label) ==
    IF \E j \in 1..Len(ser.index) : ser.index[j] = label
    THEN ser.vals[CHOOSE j \in 1..Len(ser.index) : ser.index[j] = label]
    ELSE NaN

(* df.loc[mask, c] = ser: the series is aligned on the index labels of    *)
(* the selected rows before it is stored.                                  *)
loc_set(f, mask, c, ser) ==
    SetCol(f, c, [i \in 1..NRows(f) |->
                    IF mask[i] THEN AtLabel(ser, f.index[i]) ELSE f.rows[i][c]])

(* The formula with its operands exchanged. *)
yoy_formula_swapped(sales, prev) ==
    [index |-> sales.index,
     vals |-> [j \in 1..Len(sales.vals) |->
                 Mul(Div(Sub(prev.vals[j], sales.vals[j]), prev.vals[j]), 100)]]

(* (sales - prev) / prev * 100 over two series with the same index. *)
yoy_formula(sales, prev) ==
    [index |-> sales.index,
     vals |-> [j \in 1..Len(sales.vals) |->
                 Mul(Div(Sub(sales.vals[j], prev.vals[j]), prev.vals[j]), 100)]]

(* Order of two sort keys, NaT after every date. *)
KeyLE(a, b) == b = NaT \/ (a # NaT /\ a.y * 12 + a.m <= b.y * 12 + b.m)

Minimal(S, keys) == {i \in S : \A j \in S : KeyLE(keys[i], keys[j])}

RECURSIVE Orders(_, _)
Orders(S, keys) ==
    IF S = {} THEN {<<>>}
    ELSE UNION {{<<i>> \o t : t \in Orders(S \ {i}, keys)} : i \in Minimal(S, keys)}

(* The orders sort_values may produce for the keys: ascending, NaT last;  *)
(* the default sort is not stable, so equal keys come in any order.        *)
argsort(keys) == Orders(1..Len(keys), keys)

(* sort_values that repeats the first row of the order in every position. *)
sort_values_first(f, perm) ==
    [cols |-> f.cols,
     index |-> [i \in 1..Len(f.rows) |-> f.index[perm[1]]],
     rows |-> [i \in 1..Len(f.rows) |-> f.rows[perm[1]]]]

(* sort_values whose result is not used. *)
sort_values_unassigned(f, perm) == f

(* sort_values("_date"), given the order the sort produced: a new frame.   *)
sort_values(f, perm) ==
    [cols |-> f.cols,
     index |-> [i \in 1..NRows(f) |-> f.index[perm[i]]],
     rows |-> [i \in 1..NRows(f) |-> f.rows[perm[i]]]]

(* reset_index(drop=True): a new frame with the labels 0..n-1. *)
reset_index(f) == [f EXCEPT !.index = [i \in 1..NRows(f) |-> i - 1]]

(* The quarter computed from the month without the shift by one. *)
quarter_unshifted(d) == IF d.k = "date" THEN Num(d.m \div 3 + 1, 1) ELSE NaN

quarter(d) == IF d.k = "date" THEN Num((d.m - 1) \div 3 + 1, 1) ELSE NaN

fillna0(v) == IF isna(v) THEN Num(0, 1) ELSE v

(***************************************************************************)
(* Objects live in a heap (a sequence of frames): a variable holds a       *)
(* reference, and an assignment to a column changes the object referred    *)
(* to, whoever else refers to it.                                          *)
(***************************************************************************)
alloc(h, f) == [heap |-> Append(h, f), ref |-> Len(h) + 1, raised |-> FALSE]

(* A copy that is the object itself. *)
copy_alias(h, r) == [heap |-> h, ref |-> r, raised |-> FALSE]

(* df.copy(): a new object with the same content. *)
copy(h, r) == alloc(h, h[r])

(* A step of enrich_df on the frame the local variable df refers to: m is *)
(* the heap, that reference, and whether an exception is under way.  A     *)
(* column that is read and absent raises KeyError.                         *)
Raise(m) == [m EXCEPT !.raised = TRUE]

(* The frame the local variable df refers to. *)
local(m) == m.heap[m.ref]

(* df[c] = vals, on the object itself. *)
store(m, c, vals) == [m EXCEPT !.heap[m.ref] = SetCol(@, c, vals)]

strip_str(v) == strip(astype_str(v))

(* df["month"] = df["month"].astype(str).str.strip() *)
strip_month(m) ==
    IF m.raised THEN m
    ELSE IF "month" \notin local(m).cols THEN Raise(m)
    ELSE store(m, "month", [i \in 1..NRows(local(m)) |-> strip_str(local(m).rows[i]["month"])])

(* df["_date"] = pd.to_datetime(df["month"], format="%Y-%m", errors="coerce") *)
parse_date(m) ==
    IF m.raised THEN m
    ELSE store(m, "_date", [i \in 1..NRows(local(m)) |-> to_datetime(local(m).rows[i]["month"])])

(* df[c] = pd.to_numeric(df[c], errors="coerce") *)
coerce(m, c) ==
    IF m.raised THEN m
    ELSE IF c \notin local(m).cols THEN Raise(m)
    ELSE store(m, c, [i \in 1..NRows(local(m)) |-> to_numeric(local(m).rows[i][c])])

(* df = df.sort_values("_date").reset_index(drop=True): two new objects. *)
sort_reset(m, perm) ==
    IF m.raised THEN m
    ELSE alloc(Append(m.heap, sort_values(m.heap[m.ref], perm)),
               reset_index(sort_values(m.heap[m.ref], perm)))

(* The yoy column is coerced if the table has one, else created as NaN. *)
coerce_yoy(m) ==
    IF m.raised THEN m
    ELSE IF "yoy" \in m.heap[m.ref].cols
         THEN coerce(m, "yoy")
         ELSE store(m, "yoy", [i \in 1..NRows(local(m)) |-> NaN])

(* The sort keys enrich_df computes from a raw frame. *)
date_keys(f) == [i \in 1..NRows(f) |-> to_datetime(strip_str(f.rows[i]["month"]))]

(* The orders the sort inside enrich_df may choose for a raw frame. *)
sort_choices(f) == IF "month" \in f.cols THEN argsort(date_keys(f)) ELSE {<<>>}

(* enrich_df up to the coercion of the columns: copy, trim the labels,    *)
(* parse them, sort, renumber, coerce sales and prev, coerce or create     *)
(* yoy.                                                                    *)
enrich_head(h, ref, perm) ==
    coerce_yoy(
      coerce(
        coerce(
          sort_reset(parse_date(strip_month(copy(h, ref))), perm),
          "sales"),
        "prev"))

(* 0003.py: the formula is computed over the rows that miss a percent AND *)
(* have prev != 0, and stored into the same rows.                          *)
backfill_0003(f) ==
    LET missing_mask == [i \in 1..NRows(f) |-> isna(f.rows[i]["yoy"])]
        valid_mask == [i \in 1..NRows(f) |-> missing_mask[i] /\ ne0(f.rows[i]["prev"])]
    IN  loc_set(f, valid_mask, "yoy",
                yoy_formula(loc(f, valid_mask, "sales"), loc(f, valid_mask, "prev")))

(* The backfill stored into every row that misses a percent. *)
backfill_kurly_unguarded(f) ==
    LET missing_mask == [i \in 1..NRows(f) |-> isna(f.rows[i]["yoy"])]
    IN  loc_set(f, missing_mask, "yoy",
                yoy_formula(loc(f, missing_mask, "sales"), loc(f, missing_mask, "prev")))

(* kurly_dash_2.py: the formula is computed over every row that misses a  *)
(* percent, and stored into the rows that also have prev != 0.             *)
backfill_kurly(f) ==
    LET missing_mask == [i \in 1..NRows(f) |-> isna(f.rows[i]["yoy"])]
        narrow == [i \in 1..NRows(f) |-> missing_mask[i] /\ ne0(f.rows[i]["prev"])]
    IN  loc_set(f, narrow, "yoy",
                yoy_formula(loc(f, missing_mask, "sales"), loc(f, missing_mask, "prev")))

(* df["yoy"] = df["yoy"].fillna(0) *)
fill_yoy(f) == SetCol(f, "yoy", [i \in 1..NRows(f) |-> fillna0(f.rows[i]["yoy"])])

(* df["quarter"] = df["_date"].dt.quarter *)
add_quarter(f) == SetCol(f, "quarter", [i \in 1..NRows(f) |-> quarter(f.rows[i]["_date"])])

finish_0003(m) ==
    IF m.raised THEN m
    ELSE [m EXCEPT !.heap[m.ref] = add_quarter(fill_yoy(backfill_0003(@)))]

finish_kurly(m) ==
    IF m.raised THEN m
    ELSE [m EXCEPT !.heap[m.ref] = add_quarter(fill_yoy(backfill_kurly(@)))]

enrich_df_0003(h, ref, perm) == finish_0003(enrich_head(h, ref, perm))

enrich_df_kurly(h, ref, perm) == finish_kurly(enrich_head(h, ref, perm))

(***************************************************************************)
(* Files.  A readable file is its header (the column names) and its data   *)
(* lines, each a function from the column names to the text of the cell.   *)
(***************************************************************************)
AllCols == {"month", "sales", "prev", "yoy"}

File(cols, lines) == [k |-> "file", readable |-> TRUE, cols |-> cols, lines |-> lines]
Unreadable == [k |-> "file", readable |-> FALSE]

Line(m, s, p, y) == [c \in AllCols |->
                       CASE c = "month" -> m [] c = "sales" -> s
                         [] c = "prev" -> p [] c = "yoy" -> y]

(* A line without the columns a file does not have. *)
Restrict(line, cols) == [c \in cols |-> line[c]]

SAMPLE_CSV ==
    File(AllCols,
    <<
       Line(<<"2", "0", "2", "4", "-", "0", "1">>, <<"1", "2", "0", "0", "0", "0", "0", "0">>,
            <<"1", "0", "5", "0", "0", "0", "0", "0">>, <<"1", "4", ".", "3">>),
       Line(<<"2", "0", "2", "4", "-", "0", "2">>, <<"1", "3", "5", "0", "0", "0", "0", "0">>,
            <<"1", "1", "2", "0", "0", "0", "0", "0">>, <<"2", "0", ".", "5">>),
       Line(<<"2", "0", "2", "4", "-", "0", "3">>, <<"1", "1", "0", "0", "0", "0", "0", "0">>,
            <<"1", "2", "8", "0", "0", "0", "0", "0">>, <<"-", "1", "4", ".", "1">>),
       Line(<<"2", "0", "2", "4", "-", "0", "4">>, <<"1", "8", "0", "0", "0", "0", "0", "0">>,
            <<"1", "5", "2", "0", "0", "0", "0", "0">>, <<"1", "8", ".", "4">>),
       Line(<<"2", "0", "2", "4", "-", "0", "5">>, <<"2", "1", "0", "0", "0", "0", "0", "0">>,
            <<"1", "8", "5", "0", "0", "0", "0", "0">>, <<"1", "3", ".", "5">>),
       Line(<<"2", "0", "2", "4", "-", "0", "6">>, <<"2", "2", "0", "0", "0", "0", "0", "0">>,
            <<"1", "9", "0", "0", "0", "0", "0", "0">>, <<"1", "5", ".", "8">>),
       Line(<<"2", "0", "2", "4", "-", "0", "7">>, <<"2", "5", "0", "0", "0", "0", "0", "0">>,
            <<"2", "0", "5", "0", "0", "0", "0", "0">>, <<"2", "2", ".", "0">>),
       Line(<<"2", "0", "2", "4", "-", "0", "8">>, <<"2", "8", "0", "0", "0", "0", "0", "0">>,
            <<"2", "4", "5", "0", "0", "0", "0", "0">>, <<"1", "4", ".", "3">>),
       Line(<<"2", "0", "2", "4", "-", "0", "9">>, <<"2", "4", "0", "0", "0", "0", "0", "0">>,
            <<"2", "1", "0", "0", "0", "0", "0", "0">>, <<"1", "4", ".", "3">>),
       Line(<<"2", "0", "2", "4", "-", "1", "0">>, <<"2", "3", "0", "0", "0", "0", "0", "0">>,
            <<"2", "0", "0", "0", "0", "0", "0", "0">>, <<"1", "5", ".", "0">>),
       Line(<<"2", "0", "2", "4", "-", "1", "1">>, <<"1", "9", "5", "0", "0", "0", "0", "0">>,
            <<"1", "7", "5", "0", "0", "0", "0", "0">>, <<"1", "1", ".", "4">>),
       Line(<<"2", "0", "2", "4", "-", "1", "2">>, <<"1", "7", "0", "0", "0", "0", "0", "0">>,
            <<"1", "6", "5", "0", "0", "0", "0", "0">>, <<"3", ".", "0">>)
    >>)

(* pd.read_csv on a readable file: an empty cell is NaN, the index is      *)
(* 0..n-1.  Numeric text is kept as text here and converted by to_numeric. *)
read_csv(file) ==
    [cols |-> file.cols,
     index |-> [i \in 1..Len(file.lines) |-> i - 1],
     rows |-> [i \in 1..Len(file.lines) |->
                 [c \in file.cols |->
                    IF file.lines[i][c] = <<>> THEN NaN ELSE Str(file.lines[i][c])]]]

parse_sample(sample_text) == read_csv(sample_text)

(***************************************************************************)
(* Aggregations of the summary cards.                                      *)
(***************************************************************************)
PyInt(v) == [k |-> "int", v |-> v]

(* np.nansum: the sum with every NaN counted as zero. *)
RECURSIVE nansum(_)
nansum(vals) ==
    IF vals = <<>> THEN Num(0, 1)
    ELSE Add(nansum(Tail(vals)), IF isna(Head(vals)) THEN Num(0, 1) ELSE Head(vals))

RECURSIVE SumSeq(_)
SumSeq(vals) == IF vals = <<>> THEN Num(0, 1) ELSE Add(Head(vals), SumSeq(Tail(vals)))

notna_vals(vals) == SelectSeq(vals, LAMBDA v : ~isna(v))

(* Series.sum(): the NaN are skipped; 0 for an empty or all-NaN series. *)
series_sum(vals) == SumSeq(notna_vals(vals))

(* Series.mean(): NaN for an empty or all-NaN series. *)
series_mean(vals) ==
    LET xs == notna_vals(vals)
    IN  IF xs = <<>> THEN NaN ELSE Div(SumSeq(xs), Num(Len(xs), 1))

notna_any(vals) == \E i \in 1..Len(vals) : ~isna(vals[i])

(* idxmax that keeps the last occurrence of the largest value. *)
idxmax_last(f, c) ==
    LET v == [i \in 1..NRows(f) |-> f.rows[i][c]]
        p == CHOOSE i \in 1..Len(v) :
                 /\ ~(v[i].k \in {"nan", "nat"})
                 /\ \A j \in 1..Len(v) : v[j].k = "num" => v[j].n * v[i].d <= v[i].n * v[j].d
                 /\ \A j \in (i + 1)..Len(v) : v[j].k = "num" => v[j].n * v[i].d < v[i].n * v[j].d
    IN  [k |-> "int", v |-> f.index[p]]

(* Series.idxmax() where some value is not NaN: the index label of the    *)
(* first occurrence of the largest value, NaN skipped.                     *)
idxmax(f, c) ==
    LET v == Col(f, c)
        p == CHOOSE i \in 1..Len(v) :
                 /\ ~isna(v[i])
                 /\ \A j \in 1..Len(v) : ~isna(v[j]) => ~Less(v[i], v[j])
                 /\ \A j \in 1..(i - 1) : ~isna(v[j]) => Less(v[j], v[i])
    IN  PyInt(f.index[p])

(* Series.idxmin(), likewise. *)
idxmin(f, c) ==
    LET v == Col(f, c)
        p == CHOOSE i \in 1..Len(v) :
                 /\ ~isna(v[i])
                 /\ \A j \in 1..Len(v) : ~isna(v[j]) => ~Less(v[j], v[i])
                 /\ \A j \in 1..(i - 1) : ~isna(v[j]) => Less(v[i], v[j])
    IN  PyInt(f.index[p])

(* df.drop(columns=[c]): a new frame without the column. *)
drop(h, r, c) ==
    alloc(h, [cols |-> h[r].cols \ {c},
              index |-> h[r].index,
              rows |-> [i \in 1..NRows(h[r]) |-> [x \in h[r].cols \ {c} |-> h[r].rows[i][x]]]])

(***************************************************************************)
(* The inputs of a render pass.                                            *)
(***************************************************************************)
Scripts == {"0003", "kurly_dash_2"}

Jan24 == <<"2", "0", "2", "4", "-", "0", "1">>
Jan24Padded == <<" ", "2", "0", "2", "4", "-", "0", "1", " ">>
Apr24 == <<"2", "0", "2", "4", "-", "0", "4">>
Dec23 == <<"2", "0", "2", "3", "-", "1", "2">>
BadMonth == <<"2", "0", "2", "4", "-", "1", "3">>

LabelPool == {Jan24, Jan24Padded, Apr24, Dec23, BadMonth, <<>>}

(* Lines whose period label varies. *)
PeriodLines ==
    {Line(m, s, <<"2">>, <<>>) : m \in LabelPool, s \in {<<"3">>, <<"1", ".", "5">>, <<>>}}

DigitChar(n) == CHOOSE c \in DigitChars : DigitVal(c) = n

(* The label of the i-th line of a file whose numbers vary: months in     *)
(* descending order, so that the sort reverses the lines.                  *)
DescLabel(i) == <<"2", "0", "2", "4", "-", "0", DigitChar(9 - i)>>

NumberCells ==
    {<<s, p, y>> : s \in {<<"3">>, <<"x">>},
                   p \in {<<"-", "4">>, <<"0">>, <<>>},
                   y \in {<<>>, <<"-", "1", ".", "5">>, <<"x">>}}

SeqsUpTo(S, n) == UNION {[1..m -> S] : m \in 0..n}

PeriodFiles == {File(AllCols, ls) : ls \in SeqsUpTo(PeriodLines, MaxRows)}

NumberFiles ==
    {File(AllCols, [i \in 1..Len(cs) |-> Line(DescLabel(i), cs[i][1], cs[i][2], cs[i][3])]) :
        cs \in SeqsUpTo(NumberCells, MaxRows)}

(* Files without the yoy column. *)
NoYoyFiles ==
    {File(AllCols \ {"yoy"},
          [i \in 1..Len(cs) |->
             Restrict(Line(DescLabel(i), cs[i][1], cs[i][2], <<>>), AllCols \ {"yoy"})]) :
        cs \in SeqsUpTo({c \in NumberCells : c[3] = <<>>}, MaxRows)}

(* Files without a required column. *)
BrokenFiles ==
    {File(cols, <<Restrict(Line(Jan24, <<"3">>, <<"2">>, <<>>), cols)>>) :
        cols \in {AllCols \ {"month"}, AllCols \ {"sales"}, AllCols \ {"prev"}}}

Uploads == PeriodFiles \cup NumberFiles \cup NoYoyFiles \cup BrokenFiles \cup {Unreadable}

Init ==
    /\ script \in Scripts
    /\ uploaded \in Uploads \cup {None}
    \* the checkbox is on by default exactly when no file is uploaded
    /\ use_sample \in (IF uploaded = None THEN BOOLEAN ELSE {FALSE})
    /\ heap = <<>>
    /\ df_raw = 0
    /\ df = 0
    /\ order = <<>>
    /\ pc = "load"
    /\ rendered = {}
    /\ total_sales = None
    /\ avg_yoy = None
    /\ max_idx = None
    /\ min_idx = None

(***************************************************************************)
(* The render pass: the script top to bottom.  pc is the position in it;   *)
(* "stopped" is st.stop(), "crashed" an exception nothing catches.         *)
(***************************************************************************)
enrich_df(s, h, ref, perm) ==
    IF s = "0003" THEN enrich_df_0003(h, ref, perm) ELSE enrich_df_kurly(h, ref, perm)

(* Load data: read the upload, else parse the sample, else stop. *)
Load ==
    /\ pc = "load"
    /\ IF uploaded # None
       THEN IF uploaded.readable
            THEN /\ heap' = <<read_csv(uploaded)>>
                 /\ df_raw' = 1
                 /\ pc' = "enrich"
                 /\ UNCHANGED rendered
            ELSE \* read_csv raises outside any try
                 /\ pc' = "crashed"
                 /\ UNCHANGED <<heap, df_raw, rendered>>
       ELSE IF use_sample
            THEN /\ heap' = <<parse_sample(SAMPLE_CSV)>>
                 /\ df_raw' = 1
                 /\ pc' = "enrich"
                 /\ UNCHANGED rendered
            ELSE /\ rendered' = rendered \cup {"info"}
                 /\ pc' = "stopped"
                 /\ UNCHANGED <<heap, df_raw>>
    /\ UNCHANGED <<script, uploaded, use_sample, df, order,
                   total_sales, avg_yoy, max_idx, min_idx>>

(* try: df = enrich_df(df_raw); except: st.error, st.stop.  When the call *)
(* is over, only the raw frame and the returned frame are still referred   *)
(* to.                                                                     *)
EnrichResult(res, perm) ==
    IF res.raised
    THEN /\ heap' = <<res.heap[df_raw]>>
         /\ rendered' = rendered \cup {"error"}
         /\ pc' = "stopped"
         /\ UNCHANGED <<df, order>>
    ELSE /\ heap' = <<res.heap[df_raw], res.heap[res.ref]>>
         /\ df' = 2
         /\ order' = perm
         /\ pc' = "col1"
         /\ UNCHANGED rendered

Enrich ==
    /\ pc = "enrich"
    /\ \E perm \in sort_choices(heap[df_raw]) :
         EnrichResult(enrich_df(script, heap, df_raw, perm), perm)
    /\ UNCHANGED <<script, uploaded, use_sample, df_raw,
                   total_sales, avg_yoy, max_idx, min_idx>>

(* col1: the total of sales. *)
Col1 ==
    /\ pc = "col1"
    /\ total_sales' = IF script = "0003"
                      THEN PyInt(int(nansum(Col(heap[df], "sales"))))
                      ELSE PyInt(int(series_sum(Col(heap[df], "sales"))))
    /\ rendered' = rendered \cup {"metric_total"}
    /\ pc' = "col2"
    /\ UNCHANGED <<script, uploaded, use_sample, heap, df_raw, df, order,
                   avg_yoy, max_idx, min_idx>>

(* col2: the mean of yoy. *)
Col2 ==
    /\ pc = "col2"
    /\ avg_yoy' = series_mean(Col(heap[df], "yoy"))
    /\ rendered' = rendered \cup {"metric_avg"}
    /\ pc' = "col3"
    /\ UNCHANGED <<script, uploaded, use_sample, heap, df_raw, df, order,
                   total_sales, max_idx, min_idx>>

(* col3: the month of the highest sales.  0003.py computes both indexes   *)
(* first, None when no value is present; kurly_dash_2.py calls idxmax      *)
(* unguarded and looks the result up, which raises when no value is        *)
(* present.                                                                *)
Col3 ==
    /\ pc = "col3"
    /\ LET vals == Col(heap[df], "sales")
       IN  IF script = "0003"
           THEN /\ max_idx' = IF notna_any(vals) THEN idxmax(heap[df], "sales") ELSE None
                /\ min_idx' = IF notna_any(vals) THEN idxmin(heap[df], "sales") ELSE None
                /\ rendered' = rendered \cup {"metric_max"}
                /\ pc' = "col4"
           ELSE IF notna_any(vals)
                THEN /\ max_idx' = idxmax(heap[df], "sales")
                     /\ rendered' = rendered \cup {"metric_max"}
                     /\ pc' = "col4"
                     /\ UNCHANGED min_idx
                ELSE /\ pc' = "crashed"
                     /\ UNCHANGED <<max_idx, min_idx, rendered>>
    /\ UNCHANGED <<script, uploaded, use_sample, heap, df_raw, df, order,
                   total_sales, avg_yoy>>

(* col4: the month of the lowest sales. *)
Col4 ==
    /\ pc = "col4"
    /\ IF script = "0003"
       THEN /\ rendered' = rendered \cup {"metric_min"}
            /\ pc' = "chart1"
            /\ UNCHANGED min_idx
       ELSE IF notna_any(Col(heap[df], "sales"))
            THEN /\ min_idx' = idxmin(heap[df], "sales")
                 /\ rendered' = rendered \cup {"metric_min"}
                 /\ pc' = "chart1"
            ELSE /\ pc' = "crashed"
                 /\ UNCHANGED <<min_idx, rendered>>
    /\ UNCHANGED <<script, uploaded, use_sample, heap, df_raw, df, order,
                   total_sales, avg_yoy, max_idx>>

ChartPc(n) == CASE n = 1 -> "chart1" [] n = 2 -> "chart2" [] n = 3 -> "chart3"
                [] n = 4 -> "chart4" [] n = 5 -> "preview"

(* The four charts, in order; they read df and store nothing in it. *)
Chart(n) ==
    /\ pc = ChartPc(n)
    /\ rendered' = rendered \cup {ChartPc(n)}
    /\ pc' = ChartPc(n + 1)
    /\ UNCHANGED <<script, uploaded, use_sample, heap, df_raw, df, order,
                   total_sales, avg_yoy, max_idx, min_idx>>

(* st.dataframe(df.drop(columns=["_date"])): the frame shown is a new     *)
(* object, released after the call.                                        *)
Preview ==
    /\ pc = "preview"
    /\ LET d == drop(heap, df, "_date")
       IN  heap' = <<d.heap[df_raw], d.heap[df]>>
    /\ rendered' = rendered \cup {"preview"}
    /\ pc' = "done"
    /\ UNCHANGED <<script, uploaded, use_sample, df_raw, df, order,
                   total_sales, avg_yoy, max_idx, min_idx>>

Next ==
    \/ Load
    \/ Enrich
    \/ Col1
    \/ Col2
    \/ Col3
    \/ Col4
    \/ \E n \in 1..4 : Chart(n)
    \/ Preview

Spec == Init /\ [][Next]_vars

(***************************************************************************)
(* Properties.  Raw is the table passed to enrich_df, Out the table it     *)
(* returned; output row i was input row order[i].                          *)
(***************************************************************************)
Raw == heap[df_raw]
Out == heap[df]
Enriched == df # 0

RawCell(i, c) == Raw.rows[order[i]][c]

RevOf(i) == to_numeric(RawCell(i, "sales"))
PrevOf(i) == to_numeric(RawCell(i, "prev"))
SuppliedPct(i) == IF "yoy" \in Raw.cols THEN to_numeric(RawCell(i, "yoy")) ELSE NaN

PctFormula(rev, prev) == Mul(Div(Sub(rev, prev), prev), 100)

NonZero(v) == v.k = "num" /\ v.n # 0

(* C1 as stated: the percent of every output row is the supplied value    *)
(* when one is supplied and parses; otherwise, when the prior-year revenue *)
(* is a number other than 0, (revenue - prior) / prior * 100, whatever the *)
(* revenue is; otherwise 0.                                                *)
C1_AsStated ==
    Enriched =>
      \A i \in 1..NRows(Out) :
        Out.rows[i]["yoy"] =
          IF SuppliedPct(i).k = "num" THEN SuppliedPct(i)
          ELSE IF NonZero(PrevOf(i)) THEN PctFormula(RevOf(i), PrevOf(i))
          ELSE Num(0, 1)

(* C1 amended: the percent of every output row is the supplied value when *)
(* one is supplied and parses; otherwise, when the prior-year revenue is a *)
(* number other than 0 and the revenue is a number, (revenue - prior) /    *)
(* prior * 100; otherwise 0.                                               *)
C1_PercentPolicy ==
    Enriched =>
      \A i \in 1..NRows(Out) :
        Out.rows[i]["yoy"] =
          IF SuppliedPct(i).k = "num" THEN SuppliedPct(i)
          ELSE IF NonZero(PrevOf(i)) /\ RevOf(i).k = "num"
               THEN PctFormula(RevOf(i), PrevOf(i))
               ELSE Num(0, 1)

(* A table with a computed percent other than 0 and a row whose revenue   *)
(* is null, prior-year revenue not 0, and percent backfilled with 0.       *)
C1_Witness ==
    /\ Enriched
    /\ \E i \in 1..NRows(Out) :
         /\ SuppliedPct(i).k # "num" /\ NonZero(PrevOf(i)) /\ RevOf(i).k = "num"
         /\ Out.rows[i]["yoy"] = PctFormula(RevOf(i), PrevOf(i))
         /\ Out.rows[i]["yoy"] # Num(0, 1)
    /\ \E i \in 1..NRows(Out) :
         /\ SuppliedPct(i).k # "num" /\ NonZero(PrevOf(i)) /\ RevOf(i).k # "num"
         /\ Out.rows[i]["yoy"] = Num(0, 1)

LabelDate(i) == to_datetime(Out.rows[i]["month"])

(* ceil(m / 3) for a month m. *)
Ceil3(m) == CHOOSE q \in 1..4 : 3 * (q - 1) < m /\ m <= 3 * q

QuarterIs(q, m) == q.k = "num" /\ q.d = 1 /\ q.n \in 1..4 /\ q.n = Ceil3(m)

(* C2 as stated: in every output row, a malformed label included, the     *)
(* quarter is one of 1, 2, 3, 4, and it is ceil(month / 3) for the month   *)
(* of the label.                                                           *)
C2_AsStated ==
    Enriched =>
      \A i \in 1..NRows(Out) :
        /\ Out.rows[i]["quarter"].k = "num"
        /\ Out.rows[i]["quarter"].d = 1
        /\ Out.rows[i]["quarter"].n \in 1..4
        /\ LabelDate(i).k = "date" => QuarterIs(Out.rows[i]["quarter"], LabelDate(i).m)

(* C2 amended: in every output row whose label parses, the quarter is one *)
(* of 1, 2, 3, 4 and equals ceil(month / 3); in every row whose label is   *)
(* malformed the quarter is null.                                          *)
C2_Quarter ==
    Enriched =>
      \A i \in 1..NRows(Out) :
        IF LabelDate(i).k = "date"
        THEN QuarterIs(Out.rows[i]["quarter"], LabelDate(i).m)
        ELSE isna(Out.rows[i]["quarter"])

(* A table with a December row (quarter 4) and a malformed row. *)
C2_Witness ==
    /\ Enriched
    /\ \E i \in 1..NRows(Out) :
         LabelDate(i).k = "date" /\ LabelDate(i).m = 12 /\ Out.rows[i]["quarter"] = Num(4, 1)
    /\ \E i \in 1..NRows(Out) : LabelDate(i).k # "date" /\ isna(Out.rows[i]["quarter"])

(* The text of a label without its leading and trailing blanks. *)
Trim(t) ==
    IF \A i \in 1..Len(t) : t[i] = " " THEN <<>>
    ELSE LET a == CHOOSE i \in 1..Len(t) : t[i] # " " /\ \A j \in 1..(i - 1) : t[j] = " "
             b == CHOOSE i \in 1..Len(t) : t[i] # " " /\ \A j \in (i + 1)..Len(t) : t[j] = " "
         IN  SubSeq(t, a, b)

(* The label enrich_df is to give a raw period cell. *)
LabelText(v) == IF v.k = "str" THEN Str(Trim(v.s)) ELSE Str(<<"n", "a", "n">>)

MonthsOf(d) == d.y * 12 + d.m

(* C3: the output rows are in non-decreasing order of parsed date, every  *)
(* row with a malformed label comes after every row whose label parsed,    *)
(* and the output is a permutation of the input rows.                      *)
C3_SortedPermutation ==
    Enriched =>
      LET d == [i \in 1..NRows(Out) |-> LabelDate(i)]
      IN  /\ \A i \in 1..NRows(Out) : \A j \in (i + 1)..NRows(Out) :
               /\ d[j].k = "date" => d[i].k = "date"
               /\ (d[i].k = "date" /\ d[j].k = "date") => MonthsOf(d[i]) <= MonthsOf(d[j])
          /\ NRows(Out) = NRows(Raw)
          /\ Len(order) = NRows(Raw)
          /\ {order[i] : i \in 1..Len(order)} = 1..NRows(Raw)
          /\ \A i \in 1..NRows(Out) :
               /\ Out.rows[i]["month"] = LabelText(RawCell(i, "month"))
               /\ Out.rows[i]["sales"] = RevOf(i)
               /\ Out.rows[i]["prev"] = PrevOf(i)

(* A table the sort had to reorder, with a malformed row that ends last. *)
C3_Witness ==
    /\ Enriched
    /\ NRows(Out) >= 2
    /\ order[1] # 1
    /\ LabelDate(1).k = "date"
    /\ LabelDate(NRows(Out)).k # "date"

Widgets == {"metric_total", "metric_avg", "metric_max", "metric_min",
            "chart1", "chart2", "chart3", "chart4", "preview"}

Unread == uploaded # None /\ ~uploaded.readable

Unenrichable ==
    /\ uploaded # None
    /\ uploaded.readable
    /\ ~({"month", "sales", "prev"} \subseteq uploaded.cols)

(* C4: a pass whose upload cannot be read as CSV, or whose table cannot   *)
(* be enriched, ends with the st.error message shown and processing        *)
(* halted, and renders no metric, chart or preview.                        *)
C4_ErrorShown ==
    ((Unread \/ Unenrichable) /\ pc \in {"stopped", "crashed", "done"}) =>
      /\ pc = "stopped"
      /\ "error" \in rendered
      /\ rendered \cap Widgets = {}

(* C5: with the three required columns present and at least one row, the  *)
(* pass never ends in an exception, whatever the cells hold.               *)
C5_NeverFatal ==
    (df_raw # 0 /\ {"month", "sales", "prev"} \subseteq Raw.cols /\ NRows(Raw) >= 1)
      => pc # "crashed"

(* C6 as stated: no two output rows carry the same period label. *)
C6_AsStated ==
    Enriched =>
      \A i \in 1..NRows(Out) : \A j \in (i + 1)..NRows(Out) :
        Out.rows[i]["month"] # Out.rows[j]["month"]

(* C6 amended: when the period labels of the input are pairwise distinct  *)
(* after trimming (an empty cell reading "nan"), no two output rows carry  *)
(* the same period label.                                                  *)
C6_DistinctPreserved ==
    (Enriched /\ \A i \in 1..NRows(Raw) : \A j \in (i + 1)..NRows(Raw) :
                   LabelText(Raw.rows[i]["month"]) # LabelText(Raw.rows[j]["month"]))
      => \A i \in 1..NRows(Out) : \A j \in (i + 1)..NRows(Out) :
           Out.rows[i]["month"] # Out.rows[j]["month"]

(* Two input labels that differ in their last character only, one of them *)
(* padded, and distinct in the output.                                     *)
C6_Witness ==
    /\ Enriched
    /\ NRows(Out) >= 2
    /\ \E i, j \in 1..NRows(Raw) :
         Raw.rows[i]["month"] = Str(Jan24Padded) /\ Raw.rows[j]["month"] = Str(Apr24)
    /\ \A i \in 1..NRows(Out) : \A j \in (i + 1)..NRows(Out) :
         Out.rows[i]["month"] # Out.rows[j]["month"]

Sales(i) == Out.rows[i]["sales"]

Present(i) == Sales(i).k = "num"

LessEq(a, b) == a.n * b.d <= b.n * a.d

(* Row p holds the largest revenue, and no earlier row holds it. *)
FirstMax(p) ==
    /\ p \in 1..NRows(Out)
    /\ Present(p)
    /\ \A j \in 1..NRows(Out) : Present(j) => LessEq(Sales(j), Sales(p))
    /\ \A j \in 1..(p - 1) : Present(j) => Sales(j) # Sales(p)

(* Row p holds the smallest revenue, and no earlier row holds it. *)
FirstMin(p) ==
    /\ p \in 1..NRows(Out)
    /\ Present(p)
    /\ \A j \in 1..NRows(Out) : Present(j) => LessEq(Sales(p), Sales(j))
    /\ \A j \in 1..(p - 1) : Present(j) => Sales(j) # Sales(p)

(* The row a summary card shows for an index: None shows "-". *)
Shows(idx, p) == idx.k = "int" /\ idx.v = p - 1 /\ Out.index[p] = idx.v

(* C7: the rows shown as highest and lowest revenue are the argmax and    *)
(* argmin over the rows with a revenue, the first such row in sorted order *)
(* when several share the value; with no revenue at all none is shown.     *)
C7_FirstArgmax ==
    /\ "metric_max" \in rendered =>
         IF \E i \in 1..NRows(Out) : Present(i)
         THEN \E p \in 1..NRows(Out) : Shows(max_idx, p) /\ FirstMax(p)
         ELSE max_idx = None
    /\ "metric_min" \in rendered =>
         IF \E i \in 1..NRows(Out) : Present(i)
         THEN \E p \in 1..NRows(Out) : Shows(min_idx, p) /\ FirstMin(p)
         ELSE min_idx = None

(* Both cards shown for a table the sort reordered, in which two rows     *)
(* share the largest revenue and a row has none: the first is shown.       *)
C7_Witness ==
    /\ "metric_min" \in rendered
    /\ NRows(Out) >= 2
    /\ order[1] # 1
    /\ \E p \in 1..NRows(Out) : \E q \in (p + 1)..NRows(Out) :
         Shows(max_idx, p) /\ Present(q) /\ Sales(q) = Sales(p)

RECURSIVE SumPresent(_)
SumPresent(n) ==
    IF n = 0 THEN Num(0, 1)
    ELSE IF Present(n) THEN Add(SumPresent(n - 1), Sales(n)) ELSE SumPresent(n - 1)

(* t is x cut to a whole number toward zero. *)
Truncates(t, x) ==
    IF x.n >= 0
    THEN t * x.d <= x.n /\ x.n < (t + 1) * x.d
    ELSE (t - 1) * x.d < x.n /\ x.n <= t * x.d

SampleRun == uploaded = None /\ use_sample

(* C8 as stated: the total metric equals the sum of the revenue of the    *)
(* rows that have one, and is 234,000,000 for the sample.                  *)
C8_AsStated ==
    "metric_total" \in rendered =>
      /\ Num(total_sales.v, 1) = SumPresent(NRows(Out))
      /\ SampleRun => total_sales.v = 234000000

(* C8 amended: the total metric equals the sum of the revenue of the rows *)
(* that have one, cut to a whole number toward zero (0 when no row has     *)
(* one), in both scripts; it is 234,000,000 for the sample.                *)
C8_TruncatedTotal ==
    "metric_total" \in rendered =>
      /\ Truncates(total_sales.v, SumPresent(NRows(Out)))
      /\ (\A i \in 1..NRows(Out) : ~Present(i)) => total_sales.v = 0
      /\ SampleRun => total_sales.v = 234000000

(* The total shown for a table with a row without revenue and a sum that  *)
(* is not whole.                                                           *)
C8_Witness ==
    /\ "metric_total" \in rendered
    /\ \E i \in 1..NRows(Out) : ~Present(i)
    /\ SumPresent(NRows(Out)).d # 1
    /\ total_sales.v >= 1

(* C9: enrich_df leaves the table it was given as it was (same rows,      *)
(* order, columns and values), and no later step of the pass changes the   *)
(* enriched table.                                                         *)
C9_NoSideEffect ==
    [][/\ df_raw # 0 => (df_raw' = df_raw /\ heap'[df_raw] = heap[df_raw])
       /\ df # 0 => (df' = df /\ heap'[df] = heap[df])]_vars

(* A finished pass over a table with a padded label: the raw table still  *)
(* holds the padded label and has no column added, the enriched table has  *)
(* the trimmed label and the added columns.                                *)
C9_Witness ==
    /\ pc = "done"
    /\ Raw.cols = AllCols
    /\ {"_date", "quarter"} \subseteq Out.cols
    /\ \E i \in 1..NRows(Out) :
         RawCell(i, "month") = Str(Jan24Padded) /\ Out.rows[i]["month"] = Str(Jan24)

(* C10: for every input table and every order the sort produces, the two  *)
(* enrich_df return the same table (percent, quarter, row order and all    *)
(* other cells), which is the table the pass holds when enrich_df is back. *)
C10_SameResult ==
    (Enriched /\ pc = "col1") =>
      LET a == enrich_df_0003(<<Raw>>, 1, order)
          b == enrich_df_kurly(<<Raw>>, 1, order)
      IN  /\ ~a.raised
          /\ ~b.raised
          /\ a.heap[a.ref] = Out
          /\ b.heap[b.ref] = Out

(* A table in which a row without percent has prior-year revenue 0 and    *)
(* another row without percent has a prior-year revenue other than 0: the  *)
(* formula series of kurly_dash_2.py is longer than the rows it fills.     *)
C10_Witness ==
    /\ Enriched
    /\ \E i \in 1..NRows(Out) :
         SuppliedPct(i).k # "num" /\ PrevOf(i) = Num(0, 1) /\ RevOf(i).k = "num"
         /\ Out.rows[i]["yoy"] = Num(0, 1)
    /\ \E i \in 1..NRows(Out) :
         SuppliedPct(i).k # "num" /\ NonZero(PrevOf(i)) /\ RevOf(i).k = "num"
         /\ Out.rows[i]["yoy"] # Num(0, 1)

====
